---- MODULE Spec2Model ----
(***************************************************************************)
(* Model of pele/rates/_rates.py: class RateCalculation.                   *)
(*                                                                         *)
(* Minima are the integers 1..MaxNodes; a transition state is identified   *)
(* by the edge {u, v} it is attached to.  Real quantities are fixed-point  *)
(* integers in units of 1/1000 (log-rates, log-weights); a value produced  *)
(* by np.exp is kept as a record [kind, log] with kind "zero" (underflow   *)
(* to 0.0), "pos" (a positive finite float whose natural log is log/1000,  *)
(* so log = 0 is exactly 1.0) or "inf" (overflow).                         *)
(*                                                                         *)
(* A Python value that may be None is a sequence: None is << >> and a      *)
(* value x is << x >>.                                                     *)
(*                                                                         *)
(* pc is the life of the one RateCalculation instance: "new" before the    *)
(* constructor, "ctor_failed" when it raised, "constructed", then "called" *)
(* after the first compute_rates() and "recalled" after any later one; exc *)
(* is the exception the last operation raised ("none" when it returned).   *)
(* Console output (the print statements) is left out.                      *)
(*                                                                         *)
(* The reducer (GraphReduction) and kmcgraph_from_rates live outside the   *)
(* modelled file: the model records the arguments handed to them and stops *)
(* there.                                                                  *)
(***************************************************************************)
EXTENDS Integers, FiniteSets, Sequences, TLC

\* ---------------------------------------------------------------- bounds
MaxNodes == 3
MaxEdges == 2
MaxInvalid == 1

\* ---------------------------------------------------------------- values
None == << >>
Some(x) == << x >>
Val(o) == o[1]

Nodes == 1 .. MaxNodes
AllEdges == {e \in SUBSET Nodes : Cardinality(e) = 2}

\* temperatures the caller may pass, in units of 1/1000: T = 1.0 and T = 0.001
Temps == {1000, 1}
\* ndof arguments the caller may pass: ndof=None (the default) or ndof=3
Ndofs == {None, Some(3)}

\* attributes of the minima and transition states (owned by the database)
energy(m) == m
pgorder(m) == 1 + (m % 2)
fvib(m) == 2 * m
_id(m) == 10 + m
Other(e, m) == CHOOSE n \in e : n # m
EdgeSum(e) == LET m == CHOOSE n \in e : TRUE IN m + Other(e, m)
ts_energy(e) == EdgeSum(e) + 1
ts_pgorder(e) == 1
ts_fvib(e) == EdgeSum(e)

VARIABLES db, graph, subgraph, self, pc, exc

vars == << db, graph, subgraph, self, pc, exc >>

\* ---------------------------------------------------------------- numpy
\* np.log, in units of 1/1000, on the arguments the model uses
np_log(x) ==
    CASE x = 1 -> 0
      [] x = 2 -> 693
      [] x = 3 -> 1099
      [] x = 1000 -> 6908
\* log(2 * np.pi) in units of 1/1000
Log2Pi == 1838
\* float64: exp(x) rounds to 0.0 below -745.133 and to inf above 709.782
ExpUnderflow == 745133
ExpOverflow == 709782
np_exp(x) ==
    IF x < 0 - ExpUnderflow THEN [kind |-> "zero", log |-> 0]
    ELSE IF x > ExpOverflow THEN [kind |-> "inf", log |-> 0]
    ELSE [kind |-> "pos", log |-> x]
Max(S) == CHOOSE x \in S : \A y \in S : y <= x

\* ---------------------------------------------------------------- networkx
remove_nodes_from(g, ns) ==
    [nodes |-> g.nodes \ ns, edges |-> {e \in g.edges : e \cap ns = {}}]
keep_edges(g, es) == g
remove_edges_from(g, es) == [g EXCEPT !.edges = @ \ es]
Neighbours(g, S) == {n \in g.nodes : \E e \in g.edges : n \in e /\ e \cap S # {}}
RECURSIVE Bfs(_, _)
Bfs(g, seen) ==
    LET next == seen \cup Neighbours(g, seen)
    IN IF next = seen THEN seen ELSE Bfs(g, next)
neighbors(g, u) == {u} \cup Neighbours(g, {u})
node_connected_component(g, u) == Bfs(g, {u})
Graph_subgraph(g, ns) ==
    [nodes |-> g.nodes \cap ns, edges |-> {e \in g.edges : e \subseteq ns}]

\* ---------------------------------------------------------------- state
\* a state of the interpreter while a method runs: the two graph objects,
\* the instance and the exception raised so far
tsgraph(st) == IF st.self.tsgraph = "graph" THEN st.graph ELSE st.subgraph
set_tsgraph(st, g) ==
    IF st.self.tsgraph = "graph" THEN [st EXCEPT !.graph = g]
    ELSE [st EXCEPT !.subgraph = g]
Raise(st, e) == [st EXCEPT !.exc = e]

NoGraph == [nodes |-> {}, edges |-> {}]
NoSelf ==
    [tsgraph |-> "graph", A |-> None, B |-> None, beta |-> 0, ndof |-> None,
     use_fvib |-> FALSE, kmc_graph |-> None, Anodes |-> None, Bnodes |-> None,
     weights |-> None, reducer |-> None]

\* the databases the graph is built from: the minima, the transition states
\* (one per connected pair) and the ones flagged invalid
Databases ==
    {d \in [minima : {Nodes}, ts : SUBSET AllEdges,
            invalid_min : SUBSET Nodes, invalid_ts : SUBSET AllEdges] :
        /\ Cardinality(d.ts) <= MaxEdges
        /\ d.invalid_ts \subseteq d.ts
        /\ Cardinality(d.invalid_min) + Cardinality(d.invalid_ts) <= MaxInvalid}
database2graph(d) == [nodes |-> d.minima, edges |-> d.ts]

Init ==
    /\ db \in Databases
    /\ graph = database2graph(db)
    /\ subgraph = NoGraph
    /\ self = NoSelf
    /\ pc = "new"
    /\ exc = "none"

\* ---------------------------------------------------------------- __init__
ndof_AND(A, B) == Cardinality(A) > 1 /\ Cardinality(B) > 1
ndof_required(A, B) == Cardinality(A) > 1 \/ Cardinality(B) > 1

Construct ==
    /\ pc = "new"
    /\ \E A \in SUBSET Nodes, B \in SUBSET Nodes, T \in Temps, ndof \in Ndofs,
          use_fvib \in BOOLEAN :
          /\ A \cap B = {}
          /\ self' = [NoSelf EXCEPT !.tsgraph = "graph", !.A = Some(A),
                                    !.B = Some(B), !.beta = 1000 \div T,
                                    !.ndof = ndof, !.use_fvib = use_fvib]
          /\ IF ndof = None /\ ndof_required(A, B)
             THEN pc' = "ctor_failed" /\ exc' = "ValueError"
             ELSE pc' = "constructed" /\ exc' = "none"
    /\ UNCHANGED << db, graph, subgraph >>

\* ---------------------------------------------------------------- _reduce_tsgraph
remove_invalid(st) ==
    LET g0 == tsgraph(st)
        nodes == {m \in g0.nodes : m \in db.invalid_min}
        g1 == IF Cardinality(nodes) > 0 THEN remove_nodes_from(g0, nodes) ELSE g0
        edges == {e \in g1.edges : e \in db.invalid_ts}
        g2 == IF Cardinality(edges) > 0 THEN remove_edges_from(g1, edges) ELSE g1
    IN set_tsgraph(st, g2)

\* what set.difference_update returns, and what an intersection would give
intersection(S, nodes) == Some(S \cap nodes)
difference_update(S, nodes) == None

check_B(st, nodes) ==
    IF st.self.B = None THEN Raise(st, "AttributeError")
    ELSE
    LET Bdiff == Val(st.self.B) \ nodes
        s1 == IF Cardinality(Bdiff) > 0
              THEN [st EXCEPT !.self.B = difference_update(Val(st.self.B), nodes)]
              ELSE st
    IN IF s1.self.B = None THEN Raise(s1, "TypeError")
       ELSE IF Cardinality(Val(s1.self.B)) = 0 THEN Raise(s1, "Exception")
       ELSE s1

check_A(st, nodes) ==
    LET Adiff == Val(st.self.A) \ nodes
        s1 == IF Cardinality(Adiff) > 0
              THEN [st EXCEPT !.self.A = difference_update(Val(st.self.A), nodes)]
              ELSE st
    IN IF s1.self.A = None THEN Raise(s1, "TypeError")
       ELSE IF ~(Cardinality(Val(s1.self.A)) > 0) THEN Raise(s1, "AssertionError")
       ELSE check_B(s1, nodes)

_reduce_tsgraph(st, u) ==
    LET s1 == remove_invalid(st)
    IN IF s1.self.A = None THEN Raise(s1, "TypeError")
       ELSE IF Val(s1.self.A) = {} THEN Raise(s1, "StopIteration")
       ELSE IF u \notin tsgraph(s1).nodes THEN Raise(s1, "KeyError")
       ELSE
       LET nodes == node_connected_component(tsgraph(s1), u) \cup {u}
           s2 == [s1 EXCEPT !.subgraph = Graph_subgraph(tsgraph(s1), nodes),
                            !.self.tsgraph = "subgraph"]
       IN check_A(s2, nodes)

\* ---------------------------------------------------------------- _get_local_log_rate
swapped_log_rate(slf, min1, min2, ts) ==
    IF slf.use_fvib
    THEN (np_log(pgorder(min2)) - Log2Pi - np_log(ts_pgorder(ts)))
         + (fvib(min2) - ts_fvib(ts)) * 500
         - (ts_energy(ts) - energy(min2)) * slf.beta * 1000
    ELSE 0 - (ts_energy(ts) - energy(min2)) * slf.beta * 1000
_get_local_log_rate(slf, min1, min2, ts) ==
    IF slf.use_fvib
    THEN (np_log(pgorder(min1)) - Log2Pi - np_log(ts_pgorder(ts)))
         + (fvib(min1) - ts_fvib(ts)) * 500
         - (ts_energy(ts) - energy(min1)) * slf.beta * 1000
    ELSE 0 - (ts_energy(ts) - energy(min1)) * slf.beta * 1000

_min2node(minimum) == _id(minimum)

\* ---------------------------------------------------------------- _make_kmc_graph
\* the dict logrates after the loop over the edges: each edge (min1, min2)
\* stores the keys (u, v) and (v, u)
logrates_dict(slf, g) ==
    LET pairs == {p \in g.nodes \X g.nodes : {p[1], p[2]} \in g.edges}
        keys == {<< _min2node(p[1]), _min2node(p[2]) >> : p \in pairs}
        src(k) == CHOOSE p \in pairs : << _min2node(p[1]), _min2node(p[2]) >> = k
    IN [k \in keys |->
          _get_local_log_rate(slf, src(k)[1], src(k)[2], {src(k)[1], src(k)[2]})]

_make_kmc_graph(st) ==
    LET logrates == logrates_dict(st.self, tsgraph(st))
        rates == [uv \in DOMAIN logrates |-> np_exp(logrates[uv])]
    IN [st EXCEPT !.self.kmc_graph = Some(rates),
                  !.self.Anodes = Some({_min2node(m) : m \in Val(st.self.A)}),
                  !.self.Bnodes = Some({_min2node(m) : m \in Val(st.self.B)})]

\* ---------------------------------------------------------------- equilibrium weights
_log_equilibrium_occupation_probability(slf, minimum) ==
    0 - slf.beta * energy(minimum) * 1000 - np_log(pgorder(minimum))
      - 500 * fvib(minimum) - Val(slf.ndof) * np_log(slf.beta)

\* the condition under which the weighting is skipped
skip_if_singletons(slf) ==
    Cardinality(Val(slf.A)) = 1 /\ Cardinality(Val(slf.B)) = 1
skip_weights(slf) == slf.ndof = None

\* the value the log-weights are shifted by
weight_min(log_weights) ==
    CHOOSE x \in {log_weights[k] : k \in DOMAIN log_weights} :
        \A k \in DOMAIN log_weights : x <= log_weights[k]
weight_max(log_weights) == Max({log_weights[k] : k \in DOMAIN log_weights})

_get_equilibrium_occupation_probabilities(st) ==
    IF skip_weights(st.self)
    THEN IF Cardinality(Val(st.self.A)) # 1 \/ Cardinality(Val(st.self.B)) # 1
         THEN Raise(st, "AssertionError")
         ELSE [st EXCEPT !.self.weights = None]
    ELSE
    LET AB == Val(st.self.A) \cup Val(st.self.B)
        min_of(x) == CHOOSE m \in AB : _min2node(m) = x
        log_weights == [x \in {_min2node(m) : m \in AB} |->
                          _log_equilibrium_occupation_probability(st.self, min_of(x))]
        wmax == weight_max(log_weights)
    IN [st EXCEPT !.self.weights =
            Some([x \in DOMAIN log_weights |-> np_exp(log_weights[x] - wmax)])]

\* ---------------------------------------------------------------- compute_rates
\* the pipeline up to the construction of the reducer; self.reducer holds the
\* arguments of GraphReduction(kmc_graph, Anodes, Bnodes, weights=weights)
compute_rates(st, u) ==
    LET s1 == _reduce_tsgraph(st, u)
    IN IF s1.exc # "none" THEN s1
       ELSE
       LET s2 == _make_kmc_graph(s1)
           s3 == _get_equilibrium_occupation_probabilities(s2)
       IN IF s3.exc # "none" THEN s3
          ELSE [s3 EXCEPT !.self.reducer =
                   Some([graph |-> Val(s3.self.kmc_graph),
                         A |-> Val(s3.self.Anodes),
                         B |-> Val(s3.self.Bnodes),
                         weights |-> s3.self.weights])]

\* the elements iter(self.A).next() may return (0 when there is none)
Anchors(A) == IF A = None THEN {0} ELSE IF Val(A) = {} THEN {0} ELSE Val(A)

\* the state a call of compute_rates() leaves when the anchor is u
Call(u) ==
    compute_rates([graph |-> graph, subgraph |-> subgraph,
                   self |-> self, exc |-> "none"], u)

ComputeRates ==
    /\ pc \in {"constructed", "called", "recalled"}
    /\ \E u \in Anchors(self.A) : \E st \in {Call(u)} :
          /\ graph' = st.graph
          /\ subgraph' = st.subgraph
          /\ self' = st.self
          /\ exc' = st.exc
    /\ pc' = IF pc = "constructed" THEN "called" ELSE "recalled"
    /\ UNCHANGED db

Next == Construct \/ ComputeRates

Spec == Init /\ [][Next]_vars

\* ---------------------------------------------------------------- reference notions
\* The valid part of the database and connectivity in it, stated without the
\* search the code uses: m is connected to a when every set of valid minima
\* that holds a and is closed under the valid transition states holds m.
ValidMinima == db.minima \ db.invalid_min
ValidTs == {e \in db.ts : e \notin db.invalid_ts /\ e \subseteq ValidMinima}
Closed(S) == \A e \in ValidTs : e \cap S # {} => e \subseteq S
ConnectedTo(a) ==
    {m \in ValidMinima :
        \A S \in SUBSET ValidMinima : (a \in S /\ Closed(S)) => m \in S}
Ids(S) == {10 + m : m \in S}
One == [kind |-> "pos", log |-> 0]
\* a call of compute_rates() has returned from every step up to the reducer
Succeeded == pc \in {"called", "recalled"} /\ exc = "none"
FirstCall == pc = "constructed"

\* ---------------------------------------------------------------- C1
\* C1: when A is a single valid minimum and no member of B is connected to it
\* through valid minima and valid transition states, the first compute_rates()
\* call ends with the exception "the product set B is empty or not connected
\* to A" (exc = "Exception").
C1_DisconnectedRaisesException ==
    [][(/\ FirstCall
        /\ Cardinality(Val(self.A)) = 1
        /\ Val(self.A) \subseteq ValidMinima
        /\ \A a \in Val(self.A), b \in Val(self.B) : b \notin ConnectedTo(a))
       => exc' = "Exception"]_vars

\* ---------------------------------------------------------------- C2
\* C2: when the sanitizer gets as far as its checks of A and B, it leaves A
\* and B equal to their intersection with the surviving nodes, and it goes on
\* without an exception when both intersections are non-empty.
C2_SetsIntersected ==
    [][(FirstCall /\ exc' \notin {"StopIteration", "KeyError"})
       => /\ self'.A = Some(Val(self.A) \cap subgraph'.nodes)
          /\ self'.B = Some(Val(self.B) \cap subgraph'.nodes)
          /\ (/\ Val(self.A) \cap subgraph'.nodes # {}
              /\ Val(self.B) \cap subgraph'.nodes # {}) => exc' = "none"]_vars

\* ---------------------------------------------------------------- C3
\* C3: after a call whose sanitizer step completed, the instance's graph is
\* the pruned copy; its nodes are exactly the valid minima connected to the
\* members of A through valid transition states and its edges are exactly the
\* valid transition states between those nodes.
C3_PrunedGraphExact ==
    Succeeded =>
        /\ self.tsgraph = "subgraph"
        /\ \A a \in Val(self.A) : \E R \in {ConnectedTo(a)} :
              /\ subgraph.nodes = R
              /\ subgraph.edges = {e \in ValidTs : e \subseteq R}
        /\ subgraph.nodes \cap db.invalid_min = {}
        /\ subgraph.edges \cap db.invalid_ts = {}
\* a successful call that pruned an invalid transition state, an invalid or
\* unreachable minimum
C3_Witness ==
    /\ Succeeded
    /\ db.invalid_ts # {}
    /\ subgraph.nodes # db.minima

\* ---------------------------------------------------------------- C4
\* C4: the constructor fails with ValueError exactly when ndof is None and A
\* or B has more than one member; it fails before any pipeline step has run
\* and leaves the supplied graph as database2graph built it; otherwise the
\* construction succeeds, also leaving the graph alone.
C4_ConstructorCheck ==
    /\ pc = "ctor_failed" =>
          /\ exc = "ValueError"
          /\ self.ndof = None
          /\ Cardinality(Val(self.A)) > 1 \/ Cardinality(Val(self.B)) > 1
    /\ pc = "constructed" =>
          /\ exc = "none"
          /\ \/ self.ndof # None
             \/ Cardinality(Val(self.A)) <= 1 /\ Cardinality(Val(self.B)) <= 1
    /\ pc \in {"ctor_failed", "constructed"} =>
          /\ graph = database2graph(db)
          /\ subgraph = NoGraph
          /\ self.tsgraph = "graph"
          /\ self.kmc_graph = None /\ self.weights = None /\ self.reducer = None
C4_Witness ==
    /\ pc = "ctor_failed"
    /\ Cardinality(Val(self.A)) = 1
    /\ Cardinality(Val(self.B)) > 1
    /\ db.invalid_min # {}

\* ---------------------------------------------------------------- C5
\* C5 as stated: after a successful call in which A and B are single minima,
\* the weights are None (whether or not ndof was supplied).
C5_SingletonsGiveNone ==
    (Succeeded /\ Cardinality(Val(self.A)) = 1 /\ Cardinality(Val(self.B)) = 1)
        => (self.weights = None /\ Val(self.reducer).weights = None)
\* C5 amended: after a successful call the weights handed to the reducer are
\* None exactly when ndof was not supplied, and then A and B are single
\* minima; when ndof was supplied they are a mapping over the identities of
\* A and B, singletons or not.
C5_NoneIffNoNdof ==
    Succeeded =>
        /\ Val(self.reducer).weights = self.weights
        /\ self.weights = None <=> self.ndof = None
        /\ self.ndof = None =>
              Cardinality(Val(self.A)) = 1 /\ Cardinality(Val(self.B)) = 1
        /\ self.ndof # None =>
              DOMAIN Val(self.weights) = Ids(Val(self.A) \cup Val(self.B))
C5_Witness ==
    /\ Succeeded
    /\ self.ndof # None
    /\ Cardinality(Val(self.A)) = 1 /\ Cardinality(Val(self.B)) = 1
    /\ self.weights # None

\* ---------------------------------------------------------------- C6
\* the log-weight of section 4.3 for minimum m, in units of 1/1000
LogW(m) ==
    0 - self.beta * m * 1000 - (IF m % 2 = 1 THEN 693 ELSE 0) - 500 * (2 * m)
      - 3 * (IF self.beta = 1 THEN 0 ELSE 6908)
InUnit(w) == w.kind = "pos" /\ w.log <= 0
C7_CallerGraphUntouched == graph = database2graph(db)

\* ---------------------------------------------------------------- C8
\* C8: after a successful call, a further compute_rates() call, whichever
\* anchor it picks, succeeds and leaves the pruned graph, A, B, the rate
\* mapping, Anodes and Bnodes (and the caller's graph) as they are.
C8_RerunIdempotent ==
    Succeeded =>
        \A u \in Anchors(self.A) : \E again \in {Call(u)} :
            /\ again.exc = "none"
            /\ again.subgraph = subgraph
            /\ again.graph = graph
            /\ again.self = self
\* a second call has run after a first one that pruned something
C8_Witness ==
    /\ Succeeded
    /\ pc = "recalled"
    /\ Cardinality(Val(self.A)) > 1

\* ---------------------------------------------------------------- C9
\* the local rate model of section 4.2 with src as the source, in 1/1000
HTST(src, e) ==
    IF self.use_fvib
    THEN (IF src % 2 = 1 THEN 693 ELSE 0) - 1838
         + ((2 * src) - ts_fvib(e)) * 500
         - (ts_energy(e) - src) * self.beta * 1000
    ELSE 0 - (ts_energy(e) - src) * self.beta * 1000
\* C9: after a successful call the rate mapping has, for every edge {m1, m2}
\* of the pruned graph, the keys (id(m1), id(m2)) and (id(m2), id(m1)) and no
\* others; each holds the exponential of the local log-rate with the key's
\* first minimum as source; Anodes and Bnodes are the identities of A and B;
\* the reducer is handed exactly these.
C9_RateMapping ==
    Succeeded =>
        LET rates == Val(self.kmc_graph)
        IN /\ DOMAIN rates =
                 UNION {{<< 10 + m, 10 + Other(e, m) >> : m \in e} :
                           e \in subgraph.edges}
           /\ Cardinality(DOMAIN rates) = 2 * Cardinality(subgraph.edges)
           /\ \A e \in subgraph.edges : \A m \in e :
                 rates[<< 10 + m, 10 + Other(e, m) >>] = np_exp(HTST(m, e))
           /\ self.Anodes = Some(Ids(Val(self.A)))
           /\ self.Bnodes = Some(Ids(Val(self.B)))
           /\ Val(self.reducer).graph = rates
           /\ Val(self.reducer).A = Ids(Val(self.A))
           /\ Val(self.reducer).B = Ids(Val(self.B))
\* a rate mapping over two edges whose two directions differ
C9_Witness ==
    /\ Succeeded
    /\ Cardinality(subgraph.edges) = 2
    /\ self.use_fvib
    /\ \E k \in DOMAIN Val(self.kmc_graph) :
          Val(self.kmc_graph)[k] # Val(self.kmc_graph)[<< k[2], k[1] >>]

\* ---------------------------------------------------------------- C10
\* C10: for the instance as it stands before a call, every element of A the
\* sanitizer may pick as anchor gives the same success or failure and, on
\* success, the same pruned graph, A and B.
Outcomes == {Call(u) : u \in Anchors(self.A)}
====
